---- MODULE Spec2Model ----
(***************************************************************************)
(* CTC beam search (src/src/ctc_beam_search.ts): Vocabulary, logSumExp,    *)
(* BeamEntry (copy / extend), BeamList (add / sort) and the loop of        *)
(* CTCBeamSearch.search, one action per add call of the loop.              *)
(*                                                                         *)
(* Numbers.  Every number the decoder handles is a log-probability.  A    *)
(* log-probability x is represented by the probability exp(x) it denotes,  *)
(* as a fraction <<n, d>> in lowest terms.  Under this representation      *)
(*   the code's  x + y              is the product      (LogPlus),         *)
(*   the code's  x > y, b - a       is the comparison   (LogGreater),      *)
(*   log(exp(x) + exp(y))           is the sum          (LogOfSum),        *)
(*   the code's literal 0           is the fraction 1/1 (Zero).            *)
(* The arithmetic is the exact one; the rounding of IEEE doubles is not    *)
(* part of the model.                                                      *)
(***************************************************************************)
EXTENDS Integers, Sequences, FiniteSets, TLC

VARIABLES vocabulary,     \* CTCBeamSearch._vocabulary (with _blankIndex)
          logProbs,       \* search's first argument: the matrix
          width,          \* search's second argument
          beams,          \* search's local `beams`
          allCandidates,  \* the row callback's local BeamList, <<>> before the first
          t,              \* position of logProbs.forEach (1-based row number)
          b,              \* position of beams.forEach (1-based)
          cIndex,         \* the for loop's cIndex
          pc,             \* "row" | "copy" | "extend" | "sort" | "done" | "thrown"
          result,         \* <<>>, or <<the array search returned>>
          thrown,         \* "" or the name of the exception that left search
          added,          \* history: the labels handed to add() on the current pool
          lastAdd         \* history: the last add() call, see AddRecord

vars == <<vocabulary, logProbs, width, beams, allCandidates, t, b, cIndex, pc,
          result, thrown, added, lastAdd>>

\* ------------------------------------------------------------------ bounds
MaxT == 4        \* rows of the matrix: 0..MaxT
MaxWidth == 3    \* beam widths: -1..MaxWidth

\* -------------------------------------------------------------- arithmetic
RECURSIVE GCD(_, _)
GCD(x, y) == IF y = 0 THEN x ELSE GCD(y, x % y)

Norm(n, d) == LET g == GCD(n, d) IN <<n \div g, d \div g>>

\* the literal 0 of the code: log(1)
Zero == <<1, 1>>

\* x + y on log-probabilities
LogPlus(x, y) == Norm(x[1] * y[1], x[2] * y[2])

\* x > y on log-probabilities
LogGreater(x, y) ==
  LET g == GCD(x[2], y[2])
  IN  x[1] * (y[2] \div g) > y[1] * (x[2] \div g)

LogGeq(x, y) == ~LogGreater(y, x)

\* big + log1p(exp(small - big)) = log(exp(big) + exp(small))
LogOfSum(big, small) ==
  LET g == GCD(big[2], small[2])
  IN  Norm(big[1] * (small[2] \div g) + small[1] * (big[2] \div g),
           (big[2] \div g) * small[2])

logSumExp(log1, log2) ==
  IF log1 = Zero THEN log2
  ELSE IF log2 = Zero THEN log1
  ELSE IF LogGreater(log1, log2) THEN LogOfSum(log1, log2)
       ELSE LogOfSum(log2, log1)

\* -------------------------------------------------------------- Vocabulary
Vocabulary(charToIndex, blankIndex) ==
  [_charToIndex |-> charToIndex,
   _indexToChar |-> [v \in {charToIndex[k] : k \in DOMAIN charToIndex} |->
                       CHOOSE k \in DOMAIN charToIndex : charToIndex[k] = v],
   _blankIndex  |-> blankIndex]

\* CTCBeamSearch.constructor: Object.keys(vocabulary.charToIndex).length
vocabSize(vocab) == Cardinality(DOMAIN vocab._charToIndex)

\* --------------------------------------------------------------- BeamEntry
\* An optional value (undefined or a value) is <<>> or <<value>>.
\* new BeamEntry(seq, last): last is <<>> when the argument is omitted.
BeamEntry(seq, last) ==
  [seq       |-> seq,
   pTotal    |-> Zero,
   pBlank    |-> Zero,
   pNonBlank |-> Zero,
   _last     |-> IF last # <<>> /\ last[1] # 0 THEN last[1]
                 ELSE IF Len(seq) > 0 THEN seq[Len(seq)] ELSE -1,
   _parent   |-> <<>>]

\* What a _parent reference gives access to: the parent is not changed once it
\* is a member of `beams`, and copy() reads only its _last.
ParentRef(e) == [seq |-> e.seq, _last |-> e._last]

\* row[i] of a 0-based JavaScript array held as a 1-based sequence
RowAt(row, i) == row[i + 1]

RECURSIVE Join(_, _)
Join(seq, vocab) ==
  IF seq = <<>> THEN ""
  ELSE (IF seq[1] \in DOMAIN vocab._indexToChar
          THEN vocab._indexToChar[seq[1]] ELSE "") \o Join(Tail(seq), vocab)

\* the memo _string is a function of seq and the one vocabulary of the search
convertToStr(e, vocab) == Join(e.seq, vocab)

copy(this, row, blank) ==
  IF this._last = -1 THEN <<>>
  ELSE LET rev == BeamEntry(this.seq, <<this._last>>)
           pB  == IF this._parent # <<>> /\ this._parent[1]._last = this._last
                    THEN LogPlus(this.pTotal, blank)
                    ELSE LogPlus(this.pNonBlank, blank)
           pNB == LogPlus(this.pNonBlank, RowAt(row, this._last))
       IN  <<[rev EXCEPT !.pBlank = pB,
                         !.pNonBlank = pNB,
                         !.pTotal = logSumExp(pNB, pB),
                         !._parent = <<ParentRef(this)>>]>>

extend(this, index, prob, pBlank) ==
  IF this._last = -1 /\ index = 0
    THEN \* case 1
         <<[BeamEntry(<<>>, <<-1>>) EXCEPT
              !.pTotal = LogPlus(this.pTotal, logSumExp(prob, pBlank)),
              !._parent = <<ParentRef(this)>>]>>
  ELSE IF index = this._last
    THEN IF this.pBlank = Zero
           THEN \* case 2
                <<>>
           ELSE \* case 3
                <<[BeamEntry(Append(this.seq, index), <<index>>) EXCEPT
                     !.pNonBlank = LogPlus(this.pBlank, prob),
                     !.pTotal = LogPlus(this.pBlank, prob),
                     !._parent = <<ParentRef(this)>>]>>
  ELSE \* case 4
       <<[BeamEntry(Append(this.seq, index), <<index>>) EXCEPT
            !.pNonBlank = LogPlus(this.pTotal, prob),
            !.pTotal = LogPlus(this.pTotal, prob),
            !._parent = <<ParentRef(this)>>]>>

\* ---------------------------------------------------------------- BeamList
\* A JavaScript array whose holes, if any, trail its elements: `items` are the
\* elements, `length` its length property (length - Len(items) empty slots).
Array(items) == [items |-> items, length |-> Len(items)]

\* the names every `{}` inherits from Object.prototype; each of them reads as
\* a truthy value (a function, or the prototype itself)
ObjectPrototypeKeys ==
  {"constructor", "toString", "toLocaleString", "valueOf", "hasOwnProperty",
   "isPrototypeOf", "propertyIsEnumerable", "__proto__", "__defineGetter__",
   "__defineSetter__", "__lookupGetter__", "__lookupSetter__"}

\* new BeamList(size); _beams maps a label to the position its entry has in
\* _beamList (one object, reachable both ways)
BeamList(size) ==
  [_size |-> size, _beamList |-> Array(<<>>), _beams |-> [l \in {} |-> 0]]

\* existing.pX = logSumExp(beam.pX, existing.pX), in place
Merge(existing, beam) ==
  [existing EXCEPT !.pBlank    = logSumExp(beam.pBlank, existing.pBlank),
                   !.pNonBlank = logSumExp(beam.pNonBlank, existing.pNonBlank),
                   !.pTotal    = logSumExp(beam.pTotal, existing.pTotal)]

add(this, beam, vocab) ==
  IF beam = <<>> THEN this
  ELSE LET label == convertToStr(beam[1], vocab)
       IN  IF label \in DOMAIN this._beams
             THEN \* an own property: merge into the member
                  LET i == this._beams[label]
                  IN  [this EXCEPT !._beamList.items[i] = Merge(@, beam[1])]
           ELSE IF label \in ObjectPrototypeKeys
             THEN \* `existing` is the inherited property, truthy: the three
                  \* assignments go to that object and the pool keeps its members
                  this
           ELSE LET n == Len(this._beamList.items) + 1
                IN  [this EXCEPT
                       !._beams = [l \in DOMAIN this._beams \cup {label} |->
                                     IF l = label THEN n ELSE this._beams[l]],
                       !._beamList = Array(Append(this._beamList.items, beam[1]))]

\* Array.prototype.sort with (a, b) => b.pTotal - a.pTotal: stable, so an
\* element goes behind every element that does not compare smaller
RECURSIVE InsertSorted(_, _)
InsertSorted(sorted, e) ==
  IF sorted = <<>> THEN <<e>>
  ELSE IF LogGreater(e.pTotal, sorted[Len(sorted)].pTotal)
    THEN Append(InsertSorted(SubSeq(sorted, 1, Len(sorted) - 1), e),
                sorted[Len(sorted)])
  ELSE Append(sorted, e)

RECURSIVE SortByTotal(_)
SortByTotal(s) ==
  IF s = <<>> THEN <<>>
  ELSE InsertSorted(SortByTotal(SubSeq(s, 1, Len(s) - 1)), s[Len(s)])

Min(x, y) == IF x < y THEN x ELSE y

\* rev.length = n throws a RangeError unless n is a valid array length
ValidArrayLength(n) == n >= 0

\* the comparator the other way round: a.pTotal - b.pTotal
RECURSIVE InsertAscending(_, _)
InsertAscending(sorted, e) ==
  IF sorted = <<>> THEN <<e>>
  ELSE IF LogGreater(sorted[Len(sorted)].pTotal, e.pTotal)
    THEN Append(InsertAscending(SubSeq(sorted, 1, Len(sorted) - 1), e),
                sorted[Len(sorted)])
  ELSE Append(sorted, e)

RECURSIVE SortAscending(_)
SortAscending(s) ==
  IF s = <<>> THEN <<>>
  ELSE InsertAscending(SortAscending(SubSeq(s, 1, Len(s) - 1)), s[Len(s)])

sortComparatorSwapped(this) ==
  LET rev == SortAscending(this._beamList.items)
  IN  [items  |-> SubSeq(rev, 1, Min(this._size, Len(rev))),
       length |-> this._size]

\* sort that truncates (rev.length = Math.min(rev.length, _size)) and never pads
sortTruncatingOnly(this) ==
  LET rev == SortByTotal(this._beamList.items)
  IN  Array(SubSeq(rev, 1, Min(this._size, Len(rev))))

\* BeamList.sort, for a valid _size: sort in place, then rev.length = _size
sort(this) ==
  LET rev == SortByTotal(this._beamList.items)
  IN  [items  |-> SubSeq(rev, 1, Min(this._size, Len(rev))),
       length |-> this._size]

\* ------------------------------------------------------------------ inputs
Symbols == {"a", "b"}

\* every assignment of a, b and the blank to the indices 0..2, and a
\* vocabulary of two tokens, one of them spelled like a name of Object.prototype
Vocabularies ==
  {Vocabulary(x[1], x[2]) :
     x \in {y \in [Symbols -> 0..2] \X (0..2) :
              /\ y[1]["a"] # y[1]["b"]
              /\ y[2] \notin {y[1]["a"], y[1]["b"]}}}
  \cup {Vocabulary((" " :> 0) @@ ("constructor" :> 1), 2)}

High == <<3, 4>>
Low  == <<1, 8>>
Half == <<1, 2>>

\* a row of `len` log-probabilities: the mass on `focus` ("peak": 3/4 against
\* 1/8; "sure": probability 1, the log-probability 0, against 1/8), or every
\* entry 1/2 ("flat")
Row(len, focus, style) ==
  [i \in 1..len |-> IF style = "flat" THEN Half
                    ELSE IF i = focus + 1
                      THEN (IF style = "sure" THEN Zero ELSE High)
                    ELSE Low]

\* a matrix is of one kind: all rows "peak", all rows "sure", or a "sure" row
\* followed by "flat" rows
Kinds == {"peak", "sure", "sureFlat"}

RowStyle(kind, i) ==
  IF kind = "sureFlat" THEN (IF i = 1 THEN "sure" ELSE "flat") ELSE kind

\* the matrices of up to MaxT rows for a vocabulary of V labels (blank
\* included); row `bad`, if any, has one entry too many
Matrices(V) ==
  UNION {{[i \in 1..n |->
             Row(IF i = bad THEN V + 1 ELSE V, p[i], RowStyle(k, i))] :
            p \in [1..n -> 0..(V - 1)], k \in Kinds, bad \in 0..n} :
         n \in 0..MaxT}

Widths == (-1)..MaxWidth

\* ------------------------------------------------------------------- search
NoAdd == [op |-> "none", beam |-> <<>>, existing |-> <<>>, merged |-> <<>>,
          label |-> "", before |-> 0, after |-> 0]

\* the history record of one add() call
AddRecord(op, pool, beam, pool2) ==
  LET label == IF beam = <<>> THEN "" ELSE convertToStr(beam[1], vocabulary)
      own   == beam # <<>> /\ label \in DOMAIN pool._beams
  IN  [op       |-> op,
       beam     |-> beam,
       existing |-> IF own THEN <<pool._beamList.items[pool._beams[label]]>>
                    ELSE <<>>,
       merged   |-> IF own THEN <<pool2._beamList.items[pool._beams[label]]>>
                    ELSE <<>>,
       label    |-> label,
       before   |-> Len(pool._beamList.items),
       after    |-> Len(pool2._beamList.items)]

Init ==
  /\ vocabulary \in Vocabularies
  /\ logProbs \in Matrices(vocabSize(vocabulary) + 1)
  /\ width \in Widths
  /\ beams = Array(<<BeamEntry(<<>>, <<>>)>>)
  /\ allCandidates = <<>>
  /\ t = 1
  /\ b = 1
  /\ cIndex = 0
  /\ pc = "row"
  /\ result = <<>>
  /\ thrown = ""
  /\ added = {}
  /\ lastAdd = NoAdd

row == logProbs[t]
beam == beams.items[b]

\* where the loops stand after the last extend of a beam
AfterBeam ==
  IF b + 1 <= Len(beams.items)
    THEN b' = b + 1 /\ pc' = "copy"
    ELSE b' = b /\ pc' = "sort"

\* logProbs.forEach((row) => { const allCandidates = new BeamList(width); ...
NewBeamList ==
  /\ pc = "row"
  /\ t <= Len(logProbs)
  /\ allCandidates' = <<BeamList(width)>>
  /\ b' = 1
  /\ cIndex' = 0
  /\ pc' = IF Len(beams.items) > 0 THEN "copy" ELSE "sort"
  /\ added' = {}
  /\ lastAdd' = NoAdd
  /\ UNCHANGED <<vocabulary, logProbs, width, beams, t, result, thrown>>

\* allCandidates.add(beam.copy(row, row[this._blankIndex]), this._vocabulary)
AddCopy ==
  /\ pc = "copy"
  /\ LET cand == copy(beam, row, RowAt(row, vocabulary._blankIndex))
         pool == add(allCandidates[1], cand, vocabulary)
     IN  /\ allCandidates' = <<pool>>
         /\ added' = added \cup {convertToStr(c, vocabulary) : c \in {cand[i] : i \in DOMAIN cand}}
         /\ lastAdd' = AddRecord("copy", allCandidates[1], cand, pool)
  /\ cIndex' = 0
  /\ IF 0 < Len(row) - 1
       THEN pc' = "extend" /\ b' = b
       ELSE AfterBeam
  /\ UNCHANGED <<vocabulary, logProbs, width, beams, t, result, thrown>>

\* allCandidates.add(beam.extend(cIndex, row[cIndex], row[this._blankIndex]), ...)
AddExtend ==
  /\ pc = "extend"
  /\ LET cand == extend(beam, cIndex, RowAt(row, cIndex),
                        RowAt(row, vocabulary._blankIndex))
         pool == add(allCandidates[1], cand, vocabulary)
     IN  /\ allCandidates' = <<pool>>
         /\ added' = added \cup {convertToStr(c, vocabulary) : c \in {cand[i] : i \in DOMAIN cand}}
         /\ lastAdd' = AddRecord("extend", allCandidates[1], cand, pool)
  /\ cIndex' = cIndex + 1
  /\ IF cIndex + 1 < Len(row) - 1
       THEN pc' = "extend" /\ b' = b
       ELSE AfterBeam
  /\ UNCHANGED <<vocabulary, logProbs, width, beams, t, result, thrown>>

\* beams = allCandidates.sort(), the end of the row callback
Sort ==
  /\ pc = "sort"
  /\ ValidArrayLength(allCandidates[1]._size)
  /\ beams' = sort(allCandidates[1])
  /\ allCandidates' = <<[allCandidates[1] EXCEPT !._beamList = beams']>>
  /\ t' = t + 1
  /\ pc' = "row"
  /\ UNCHANGED <<vocabulary, logProbs, width, b, cIndex, result, thrown, added,
                 lastAdd>>

\* rev.length = this._size with an invalid length: the RangeError leaves search
SortThrows ==
  /\ pc = "sort"
  /\ ~ValidArrayLength(allCandidates[1]._size)
  /\ thrown' = "RangeError"
  /\ pc' = "thrown"
  /\ UNCHANGED <<vocabulary, logProbs, width, beams, allCandidates, t, b,
                 cIndex, result, added, lastAdd>>

\* return beams
Return ==
  /\ pc = "row"
  /\ t > Len(logProbs)
  /\ result' = <<beams>>
  /\ pc' = "done"
  /\ UNCHANGED <<vocabulary, logProbs, width, beams, allCandidates, t, b,
                 cIndex, thrown, added, lastAdd>>

Next == NewBeamList \/ AddCopy \/ AddExtend \/ Sort \/ SortThrows \/ Return

Spec == Init /\ [][Next]_vars

\* ------------------------------------------------- a whole row, as a function
\* what one beam hands to add() in a row, in the order of the code
Successors(e, r, vocab) ==
  <<copy(e, r, RowAt(r, vocab._blankIndex))>> \o
  [c \in 1..(Len(r) - 1) |->
     extend(e, c - 1, RowAt(r, c - 1), RowAt(r, vocab._blankIndex))]

RECURSIVE AddAll(_, _, _)
AddAll(pool, cands, vocab) ==
  IF cands = <<>> THEN pool
  ELSE AddAll(add(pool, cands[1], vocab), Tail(cands), vocab)

RECURSIVE AddBeams(_, _, _, _)
AddBeams(pool, items, r, vocab) ==
  IF items = <<>> THEN pool
  ELSE AddBeams(AddAll(pool, Successors(items[1], r, vocab), vocab),
                Tail(items), r, vocab)

\* the body of the row callback for the beams `items`, iterated as given
ProcessRow(items, r, size, vocab) ==
  sort(AddBeams(BeamList(size), items, r, vocab))

\* the pool the actions build is the pool of the row taken as a whole
PoolIsFoldOfSuccessors ==
  pc = "sort" =>
    allCandidates[1] = AddBeams(BeamList(width), beams.items, row, vocabulary)

Orders(n) == {p \in [1..n -> 1..n] : \A i, j \in 1..n : p[i] = p[j] => i = j}

Permuted(items, p) == [i \in 1..Len(items) |-> items[p[i]]]

\* what a caller sees of an array: each label with its three probabilities
View(array, vocab) ==
  {<<convertToStr(array.items[i], vocab), array.items[i].pBlank,
     array.items[i].pNonBlank, array.items[i].pTotal>> :
   i \in 1..Len(array.items)}

Sorted(items) ==
  \A i \in 1..(Len(items) - 1) : LogGeq(items[i].pTotal, items[i + 1].pTotal)

Members(pool) == Cardinality(DOMAIN pool._beams)

\* ------------------------------------------------------------------ claims

\* C1: for a matrix of at least one row and a positive width, the array that
\* sort produces after every time step, and the array search returns, holds at
\* most width candidates, each pTotal >= the next one's.
C1_SortedAtMostWidth ==
  /\ (width > 0 /\ t > 1) =>
       /\ Len(beams.items) <= width
       /\ Sorted(beams.items)
  /\ (width > 0 /\ result # <<>> /\ Len(logProbs) >= 1) =>
       /\ Len(result[1].items) <= width
       /\ Sorted(result[1].items)

\* the pool held more members than the width, and the returned candidates differ
C1_Witness ==
  /\ pc = "done"
  /\ width = 2
  /\ allCandidates # <<>>
  /\ Members(allCandidates[1]) > width
  /\ Len(result[1].items) = 2
  /\ LogGreater(result[1].items[1].pTotal, result[1].items[2].pTotal)

Idx(vocab, s) == IF s = "-" THEN vocab._blankIndex ELSE vocab._charToIndex[s]

PathMatrix(vocab, path) ==
  [i \in 1..Len(path) |-> Row(vocabSize(vocab) + 1, Idx(vocab, path[i]), "peak")]

Paths ==
  {[path |-> <<"a", "a", "b", "-">>, decoded |-> "ab"],
   [path |-> <<"a", "a">>,           decoded |-> "a"],
   [path |-> <<"a", "-", "a">>,      decoded |-> "aa"]}

Decodes(c) ==
  (/\ pc = "done"
   /\ width >= 1
   /\ logProbs = PathMatrix(vocabulary, c.path)) =>
    /\ Len(result[1].items) >= 1
    /\ convertToStr(result[1].items[1], vocabulary) = c.decoded

\* C3, as claimed: for every assignment of a, b and the blank to 0..2, the
\* rows concentrated on the path a a b -, on a a and on a - a decode, as the
\* first returned candidate, to "ab", "a" and "aa".
C3_Original ==
  DOMAIN vocabulary._charToIndex = Symbols => \A c \in Paths : Decodes(c)

\* the one assignment of 0..2 under which the three paths decode as claimed:
\* the blank last and index 0 not the first symbol of the path
C3_BlankLastAndAIsOne ==
  (/\ DOMAIN vocabulary._charToIndex = Symbols
   /\ vocabulary._blankIndex = 2
   /\ vocabulary._charToIndex["a"] = 1) => \A c \in Paths : Decodes(c)

\* C4, as claimed: with a width <= 0 search fails with InvalidArgument before
\* any time step: no pool is created and no array is returned.
C4_Original ==
  width <= 0 =>
    /\ allCandidates = <<>>
    /\ result = <<>>
    /\ thrown \in {"", "InvalidArgument"}

HasBadRow ==
  \E i \in 1..Len(logProbs) : Len(logProbs[i]) # vocabSize(vocabulary) + 1

\* C5, as claimed: with a row whose length is not the vocabulary size
\* including the blank, search fails with InvalidInput before any row is
\* processed, wherever the row is.
C5_Original ==
  HasBadRow =>
    /\ allCandidates = <<>>
    /\ result = <<>>
    /\ thrown \in {"", "InvalidInput"}

AtMostZero(x) == LogGeq(Zero, x)

\* C6, as claimed: a merge in add, and copy's sum of its blank and non-blank
\* mass, never yield a pTotal below either of the two log-probabilities it
\* combines, for all values <= 0, the value 0 included.
C6_Original ==
  /\ (/\ lastAdd.merged # <<>>
      /\ AtMostZero(lastAdd.existing[1].pTotal)
      /\ AtMostZero(lastAdd.beam[1].pTotal)) =>
       /\ LogGeq(lastAdd.merged[1].pTotal, lastAdd.existing[1].pTotal)
       /\ LogGeq(lastAdd.merged[1].pTotal, lastAdd.beam[1].pTotal)
  /\ (/\ lastAdd.op = "copy"
      /\ lastAdd.beam # <<>>
      /\ AtMostZero(lastAdd.beam[1].pBlank)
      /\ AtMostZero(lastAdd.beam[1].pNonBlank)) =>
       /\ LogGeq(lastAdd.beam[1].pTotal, lastAdd.beam[1].pBlank)
       /\ LogGeq(lastAdd.beam[1].pTotal, lastAdd.beam[1].pNonBlank)

\* the same without the value 0 among the operands
C6_WithoutZero ==
  /\ (/\ lastAdd.merged # <<>>
      /\ lastAdd.existing[1].pTotal # Zero
      /\ lastAdd.beam[1].pTotal # Zero) =>
       /\ LogGeq(lastAdd.merged[1].pTotal, lastAdd.existing[1].pTotal)
       /\ LogGeq(lastAdd.merged[1].pTotal, lastAdd.beam[1].pTotal)
  /\ (/\ lastAdd.op = "copy"
      /\ lastAdd.beam # <<>>
      /\ lastAdd.beam[1].pBlank # Zero
      /\ lastAdd.beam[1].pNonBlank # Zero) =>
       /\ LogGeq(lastAdd.beam[1].pTotal, lastAdd.beam[1].pBlank)
       /\ LogGeq(lastAdd.beam[1].pTotal, lastAdd.beam[1].pNonBlank)

Candidates ==
  {beams.items[i] : i \in 1..Len(beams.items)} \cup
  (IF allCandidates = <<>> THEN {}
   ELSE {allCandidates[1]._beamList.items[i] :
           i \in 1..Len(allCandidates[1]._beamList.items)})

\* C7, as claimed: wherever the blank index is, extend is computed for every
\* index of the row but the blank index and never for the blank index, and no
\* sequence contains the blank index.
C7_Original ==
  /\ pc = "extend" => cIndex # vocabulary._blankIndex
  /\ (pc \in {"copy", "sort"} /\ lastAdd.op = "extend") =>
       \A i \in 0..(Len(row) - 1) :
         i # vocabulary._blankIndex => i < cIndex
  /\ \A e \in Candidates : \A i \in 1..Len(e.seq) :
       e.seq[i] # vocabulary._blankIndex

\* the same for the vocabularies whose blank index is the last of the row
C7_WithBlankLast ==
  (t <= Len(logProbs) /\ vocabulary._blankIndex = Len(row) - 1) =>
    /\ pc = "extend" => cIndex # vocabulary._blankIndex
    /\ (pc \in {"copy", "sort"} /\ lastAdd.op = "extend") =>
         \A i \in 0..(Len(row) - 1) :
           i # vocabulary._blankIndex => i < cIndex

\* C8, as claimed: every candidate there is after a time step, and every member
\* of the pool, has pTotal = logSumExp(pBlank, pNonBlank).
C8_Original ==
  /\ t > 1 =>
       \A i \in 1..Len(beams.items) :
         beams.items[i].pTotal =
           logSumExp(beams.items[i].pBlank, beams.items[i].pNonBlank)
  /\ pc \in {"copy", "extend", "sort"} =>
       \A i \in 1..Len(allCandidates[1]._beamList.items) :
         LET e == allCandidates[1]._beamList.items[i]
         IN  e.pTotal = logSumExp(e.pBlank, e.pNonBlank)

\* the same for the candidates of a non-empty sequence only
C8_NonEmptySequence ==
  t > 1 =>
    \A i \in 1..Len(beams.items) :
      beams.items[i].seq # <<>> =>
        beams.items[i].pTotal =
          logSumExp(beams.items[i].pBlank, beams.items[i].pNonBlank)

\* C9, as claimed: a time step yields the same labels with the same three
\* probabilities in whichever order the beams are iterated, and so does the
\* time step after it.
C9_Original ==
  (pc = "row" /\ t <= Len(logProbs) /\ width >= 1) =>
    \A p \in Orders(Len(beams.items)) :
      LET inOrder == ProcessRow(beams.items, row, width, vocabulary)
          other   == ProcessRow(Permuted(beams.items, p), row, width, vocabulary)
      IN  /\ View(other, vocabulary) = View(inOrder, vocabulary)
          /\ t + 1 <= Len(logProbs) =>
               View(ProcessRow(other.items, logProbs[t + 1], width, vocabulary),
                    vocabulary) =
               View(ProcessRow(inOrder.items, logProbs[t + 1], width, vocabulary),
                    vocabulary)

\* the first half alone: the step itself
C9_SameStep ==
  (pc = "row" /\ t <= Len(logProbs) /\ width >= 1) =>
    \A p \in Orders(Len(beams.items)) :
      View(ProcessRow(Permuted(beams.items, p), row, width, vocabulary),
           vocabulary) =
      View(ProcessRow(beams.items, row, width, vocabulary), vocabulary)

MemberLabels ==
  {convertToStr(allCandidates[1]._beamList.items[i], vocabulary) :
     i \in 1..Len(allCandidates[1]._beamList.items)}

\* C10, as claimed: the members of a pool have pairwise distinct labels, one
\* member per label added; adding nothing changes nothing, adding a label that
\* is present merges into its member and inserts none, adding a new label
\* appends one member.
C10_Original ==
  pc \in {"copy", "extend", "sort"} =>
    /\ Cardinality(MemberLabels) = Len(allCandidates[1]._beamList.items)
    /\ MemberLabels = added
    /\ lastAdd.beam = <<>> => lastAdd.after = lastAdd.before
    /\ lastAdd.merged # <<>> =>
         /\ lastAdd.after = lastAdd.before
         /\ lastAdd.merged[1] = Merge(lastAdd.existing[1], lastAdd.beam[1])
         /\ lastAdd.merged[1].seq = lastAdd.existing[1].seq
         /\ lastAdd.merged[1]._last = lastAdd.existing[1]._last
         /\ lastAdd.merged[1]._parent = lastAdd.existing[1]._parent
    /\ (lastAdd.beam # <<>> /\ lastAdd.merged = <<>>) =>
         /\ lastAdd.after = lastAdd.before + 1
         /\ allCandidates[1]._beamList.items[lastAdd.after] = lastAdd.beam[1]

\* the same for the labels that are no name of Object.prototype
C10_OwnLabels ==
  (pc \in {"copy", "extend", "sort"} /\ added \cap ObjectPrototypeKeys = {}) =>
    /\ Cardinality(MemberLabels) = Len(allCandidates[1]._beamList.items)
    /\ MemberLabels = added
    /\ lastAdd.beam = <<>> => lastAdd.after = lastAdd.before
    /\ lastAdd.merged # <<>> =>
         /\ lastAdd.after = lastAdd.before
         /\ lastAdd.merged[1].seq = lastAdd.existing[1].seq
         /\ lastAdd.merged[1]._last = lastAdd.existing[1]._last
         /\ lastAdd.merged[1]._parent = lastAdd.existing[1]._parent
    /\ (lastAdd.beam # <<>> /\ lastAdd.merged = <<>>) =>
         /\ lastAdd.after = lastAdd.before + 1
         /\ allCandidates[1]._beamList.items[lastAdd.after] = lastAdd.beam[1]

\* ------------------------------------------- the claims on well-formed input
\* a positive width, the blank as the last index, every row of the vocabulary's
\* size (blank included)
WellFormed ==
  /\ width >= 1
  /\ vocabulary._blankIndex = vocabSize(vocabulary)
  /\ ~HasBadRow

\* C3 with the blank as the last index
C3_WithBlankLast ==
  (DOMAIN vocabulary._charToIndex = Symbols /\ vocabulary._blankIndex = 2) =>
    \A c \in Paths : Decodes(c)

C6_OnWellFormedInput == WellFormed => C6_Original

\* C8 for the candidates of a non-empty sequence, on well-formed input
C8_OnWellFormedInput == WellFormed => C8_NonEmptySequence

C10_OnWellFormedInput == WellFormed => C10_Original

\* C9 on well-formed input, for the steps in which no two members of a pool
\* have the same pTotal and no log-probability is 0
DistinctTotals(items) ==
  Cardinality({items[i].pTotal : i \in 1..Len(items)}) = Len(items)

NoZero(items) ==
  \A i \in 1..Len(items) :
    /\ items[i].pTotal # Zero
    /\ items[i].pNonBlank # Zero

Plain(items, r) ==
  LET pool == AddBeams(BeamList(width), items, r, vocabulary)._beamList.items
  IN  DistinctTotals(pool) /\ NoZero(pool)

C9_WithoutTies ==
  (/\ pc = "row"
   /\ t + 1 <= Len(logProbs)
   /\ WellFormed
   /\ \A i \in 1..Len(logProbs) : \A j \in 1..Len(logProbs[i]) :
        logProbs[i][j] # Zero) =>
    \A p \in Orders(Len(beams.items)) :
      LET inOrder == ProcessRow(beams.items, row, width, vocabulary)
          other   == ProcessRow(Permuted(beams.items, p), row, width, vocabulary)
      IN  (/\ Plain(beams.items, row)
           /\ Plain(Permuted(beams.items, p), row)
           /\ Plain(inOrder.items, logProbs[t + 1])
           /\ Plain(other.items, logProbs[t + 1])) =>
            View(ProcessRow(other.items, logProbs[t + 1], width, vocabulary),
                 vocabulary) =
            View(ProcessRow(inOrder.items, logProbs[t + 1], width, vocabulary),
                 vocabulary)

====
